---------------------------- MODULE Spec2Model ----------------------------
(***************************************************************************)
(* Model of the youtube-analyzer request handlers.                         *)
(*                                                                         *)
(*   src/src/app/api/analyze/route.ts holds two versions of the            *)
(*   /api/analyze handler: lines 1-156 ("v1": captions, then AssemblyAI)   *)
(*   and lines 158-367 ("v2": captions, then yt-dlp subtitle download).    *)
(*   src/src/app/api/transcribe-audio/route.ts is the upload handler.      *)
(*                                                                         *)
(* JavaScript strings are sequences of one-character strings; TLA+ strings *)
(* are used only for opaque tags (messages built from literals, states).   *)
(***************************************************************************)
EXTENDS Integers, Sequences, FiniteSets, TLC

VARIABLES
    route,      \* which handler serves the request: "v1", "v2" or "audio"
    hasKey,     \* whether ASSEMBLYAI_API_KEY is configured
    body,       \* the request body as received
    pc,         \* the await the handler is suspended at
    videoId,    \* const videoId (Null before extraction)
    transcript, \* let transcript
    source,     \* let transcriptSource
    aiInput,    \* the argument analyzeWithAI was called with
    calls,      \* external calls started, in order
    failures,   \* messages of the strategy failures caught, in order
    responses,  \* NextResponse.json values returned, in order
    capItems,   \* const transcriptItems (Null until the fetch resolves)
    tempFile,   \* fetchWithYtDlp: const tempFile
    srtContent, \* fetchWithYtDlp: let srtContent
    parsed,     \* fetchWithYtDlp: const transcript
    pending,    \* fetchWithYtDlp: the exception in flight inside try/finally
    files,      \* the temporary directory: file name -> content
    xin,        \* extractor harness: the input under test
    xout,       \* extractor harness: the value extractVideoId returned
    peer,       \* a second request's fetchWithYtDlp call on the same directory
    mode,       \* page: const [mode, setMode]
    videoUrl,   \* page: const [videoUrl, setVideoUrl]
    audioFile,  \* page: const [audioFile, setAudioFile]
    loading,    \* page: const [loading, setLoading]
    error,      \* page: const [error, setError]
    result,     \* page: const [result, setResult]
    requests,   \* page: the fetch calls of the handlers that have not finished
    submits     \* page: how many submit events were handled

hvars == <<route, hasKey, body, pc, videoId, transcript, source, aiInput,
           calls, failures, responses, capItems, tempFile, srtContent, parsed,
           pending, files>>
xvars == <<xin, xout>>
cvars == <<peer>>
pvars == <<mode, videoUrl, audioFile, loading, error, result, requests, submits>>
vars == <<hvars, xvars, cvars, pvars>>

---------------------------------------------------------------------------
(* Characters and string helpers                                           *)

Lower == {"a","b","c","d","e","f","g","h","i","j","k","l","m",
          "n","o","p","q","r","s","t","u","v","w","x","y","z"}
Upper == {"A","B","C","D","E","F","G","H","I","J","K","L","M",
          "N","O","P","Q","R","S","T","U","V","W","X","Y","Z"}
Digit == {"0","1","2","3","4","5","6","7","8","9"}

\* /\s/ and String.prototype.trim: the white space the inputs here can hold
WhiteSpace == {" ", "\t", "\n", "\r"}

\* null / undefined: a value no JavaScript string equals
Null == <<"<null>">>

SetMin(S) == CHOOSE x \in S : \A y \in S : x <= y

\* Array.prototype.join(sep) of an array of strings
RECURSIVE Join(_, _)
Join(arr, sep) ==
    IF Len(arr) = 0 THEN <<>>
    ELSE IF Len(arr) = 1 THEN arr[1]
    ELSE arr[1] \o sep \o Join(Tail(arr), sep)

\* String.prototype.trim
Trim(s) ==
    LET first == CHOOSE i \in 1..Len(s) :
                    s[i] \notin WhiteSpace /\ \A j \in 1..(i - 1) : s[j] \in WhiteSpace
        last == CHOOSE i \in 1..Len(s) :
                    s[i] \notin WhiteSpace /\ \A j \in (i + 1)..Len(s) : s[j] \in WhiteSpace
    IN IF \A i \in 1..Len(s) : s[i] \in WhiteSpace THEN <<>>
       ELSE SubSeq(s, first, last)

\* String.prototype.split('\n')
RECURSIVE SplitLines(_)
SplitLines(s) ==
    LET nl == {i \in 1..Len(s) : s[i] = "\n"}
    IN IF nl = {} THEN <<s>>
       ELSE <<SubSeq(s, 1, SetMin(nl) - 1)>>
            \o SplitLines(SubSeq(s, SetMin(nl) + 1, Len(s)))

---------------------------------------------------------------------------
(* extractVideoId: route.ts 79-90 (v1) and 243-254 (v2), the same text     *)

Lit_watch == <<"y","o","u","t","u","b","e",".","c","o","m","/",
               "w","a","t","c","h","?","v","=">>
Lit_short == <<"y","o","u","t","u",".","b","e","/">>
Lit_embed == <<"y","o","u","t","u","b","e",".","c","o","m","/",
               "e","m","b","e","d","/">>

\* the alternation (?:youtube\.com\/watch\?v=|youtu\.be\/|youtube\.com\/embed\/)
UrlPrefixes == <<Lit_watch, Lit_short, Lit_embed>>

\* mutant: the class without "?", [^&\n#]
IsCapChar_noQuery(c) == c \notin {"&", "\n", "#"}

\* the class [^&\n?#]
IsCapChar(c) == c \notin {"&", "\n", "?", "#"}

\* the class [a-zA-Z0-9_-]
IdChars == Lower \cup Upper \cup Digit \cup {"_", "-"}

NoMatch == [matched |-> FALSE]

PrefixAt(s, i, p) ==
    /\ i + Len(p) - 1 <= Len(s)
    /\ SubSeq(s, i, i + Len(p) - 1) = p

\* alternative a of the alternation matches at i and the group [^&\n?#]+
\* matches at least one character after it
UrlMatchAt(s, i, a) ==
    /\ PrefixAt(s, i, UrlPrefixes[a])
    /\ i + Len(UrlPrefixes[a]) <= Len(s)
    /\ IsCapChar(s[i + Len(UrlPrefixes[a])])

\* the greedy + : the last index of the run of class characters from j
RunEnd(s, j) ==
    LET bad == {k \in j..Len(s) : ~IsCapChar(s[k])}
    IN IF bad = {} THEN Len(s) ELSE SetMin(bad) - 1

\* url.match(/(?:youtube\.com\/watch\?v=|youtu\.be\/|youtube\.com\/embed\/)([^&\n?#]+)/):
\* unanchored, so the leftmost position wins, then the first alternative
urlPattern(s) ==
    LET hits == {i \in 1..Len(s) : \E a \in 1..Len(UrlPrefixes) : UrlMatchAt(s, i, a)}
    IN IF hits = {} THEN NoMatch
       ELSE LET i == SetMin(hits)
                a == SetMin({b \in 1..Len(UrlPrefixes) : UrlMatchAt(s, i, b)})
                start == i + Len(UrlPrefixes[a])
                e == RunEnd(s, start)
            IN [matched |-> TRUE, whole |-> SubSeq(s, i, e),
                group |-> SubSeq(s, start, e)]

\* url.match(/^([a-zA-Z0-9_-]{11})$/): anchored at both ends, no m flag
barePattern(s) ==
    IF Len(s) = 11 /\ \A k \in 1..Len(s) : s[k] \in IdChars
    THEN [matched |-> TRUE, whole |-> s, group |-> s]
    ELSE NoMatch

\* /([a-zA-Z0-9_-]{11})/ without the anchors: the first run of 11 class characters
barePattern_unanchored(s) ==
    LET hits == {i \in 1..(Len(s) - 10) : \A k \in 0..10 : s[i + k] \in IdChars}
    IN IF hits = {} THEN NoMatch
       ELSE [matched |-> TRUE, whole |-> SubSeq(s, SetMin(hits), SetMin(hits) + 10),
             group |-> SubSeq(s, SetMin(hits), SetMin(hits) + 10)]

\* mutant: the second pattern has lost its ^ and $
MatchPattern_unanchored(k, s) ==
    IF k = 1 THEN urlPattern(s) ELSE barePattern_unanchored(s)

\* patterns[k].exec(url), k in array order
MatchPattern(k, s) == IF k = 1 THEN urlPattern(s) ELSE barePattern(s)

\* mutant: returns match[0], the whole match, instead of the capture group
extractVideoId_whole(url) ==
    LET ks == {k \in 1..2 : MatchPattern(k, url).matched}
    IN IF ks = {} THEN Null ELSE MatchPattern(SetMin(ks), url).whole

\* for (const pattern of patterns) { if (match) return match[1] } return null
extractVideoId(url) ==
    LET ks == {k \in 1..2 : MatchPattern(k, url).matched}
    IN IF ks = {} THEN Null ELSE MatchPattern(SetMin(ks), url).group

---------------------------------------------------------------------------
(* Inputs of the extractor harness                                         *)

S_https_www ==
    <<"h","t","t","p","s",":","/","/","w","w","w",".">>
S_http ==
    <<"h","t","t","p",":","/","/">>
Id1 ==
    <<"d","Q","w","4","w","9","W","g","X","c","Q">>
Id2 ==
    <<"a","-","b","_","c","-","d","_","e","-","f">>
Id3 ==
    <<"0","0","0","0","0","0","0","0","0","0","0">>
Id4 ==
    <<"A","B","C","D","E","F","G","H","I","J","K">>
Q_t ==
    <<"&","t","=","1","0">>
Q_list ==
    <<"&","l","i","s","t","=","P","L","&","i","n","d","e","x","=","2">>
Q_qt ==
    <<"?","t","=","1","0">>
Q_qsi ==
    <<"?","s","i","=","a","b","&","t","=","1">>
T_hello ==
    <<"h","e","l","l","o"," ","w","o","r","l","d">>
T_short ==
    <<"a","b","c">>
T_ten ==
    <<"d","Q","w","4","w","9","W","g","X","c">>
T_twelve ==
    <<"d","Q","w","4","w","9","W","g","X","c","Q","Q">>
T_bang ==
    <<"d","Q","w","4","w","9","W","g","X","c","!">>
T_space ==
    <<"d","Q","w","4","w"," ","W","g","/","c","Q">>
T_vimeo ==
    <<"v","i","m","e","o",".","c","o","m","/","1","2","3">>
T_feature ==
    <<"y","o","u","t","u","b","e",".","c","o","m","/","w","a","t","c","h",
    "?","f","e","a","t","u","r","e","=","s","h","a","r","e","&","v","=">>
T_slash ==
    <<"/","x">>
T_x ==
    <<"?","x","=">>

Schemes == {<<>>, S_https_www, S_http}

\* canonical identifiers: 11 characters of [A-Za-z0-9_-]
Ids == {Id1, Id2, Id3, Id4}

\* the URL forms that carry an identifier, and what may follow it
FormPrefix(f) ==
    IF f \in {"watch", "watch&"} THEN Lit_watch
    ELSE IF f \in {"short", "short?"} THEN Lit_short
    ELSE Lit_embed
FormSuffixes(f) ==
    IF f = "watch&" THEN {Q_t, Q_list}
    ELSE IF f = "short?" THEN {Q_qt, Q_qsi}
    ELSE {<<>>}
UrlForms == {"watch", "watch&", "short", "short?", "embed"}

FormInputs ==
    {[form |-> f, id |-> id, url |-> sc \o FormPrefix(f) \o id \o q] :
        <<f, id, sc, q>> \in
            {t \in UrlForms \X Ids \X Schemes \X {<<>>, Q_t, Q_list, Q_qt, Q_qsi} :
                t[4] \in FormSuffixes(t[1])}}

BareInputs == {[form |-> "bare", id |-> id, url |-> id] : id \in Ids}

\* strings that carry no canonical identifier in one of the forms above
OtherUrls ==
    { <<>>, T_hello, T_ten, T_twelve, T_bang, T_vimeo,
      Id1 \o <<"\n">>,
      Lit_watch, Lit_watch \o Q_t, Lit_short \o Q_qt,
      Lit_watch \o T_short, Lit_watch \o T_twelve \o Q_t,
      S_https_www \o Lit_watch \o T_space,
      Lit_short \o T_ten, Lit_embed \o T_bang,
      S_https_www \o T_feature \o Id1,
      Lit_embed \o Id1 \o T_slash,
      Lit_short \o Id1 \o T_x \o Lit_short \o Id2 }

OtherInputs == {[form |-> "other", id |-> Null, url |-> u] : u \in OtherUrls}

XInputs == FormInputs \cup BareInputs \cup OtherInputs

XIdle == [form |-> "none", id |-> Null, url |-> Null]
XPending == [done |-> FALSE, value |-> Null]

---------------------------------------------------------------------------
(* Pure helpers of the handlers                                            *)

\* const maxLength = 15000 (analyze/route.ts 58 and 222, transcribe-audio/route.ts 73)
maxLength == 15000

\* const maxSize = 500 * 1024 * 1024 (transcribe-audio/route.ts 38)
maxSize == 500 * 1024 * 1024

TruncationMarker ==
    <<".",".","."," ","[","t","r","u","n","c","a","t","e","d","]">>
Srt_normal ==
    <<"1","\n","0","0",":","0","0",":","0","0",",","0","0","0"," ","-","-",
    ">"," ","0","0",":","0","0",":","0","1",",","0","0","0","\n","H","e",
    "l","l","o"," ","[","M","u","s","i","c","]"," ","w","o","r","l","d",
    "\n","\n","2","\n","0","0",":","0","0",":","0","1",",","0","0","0"," ",
    "-","-",">"," ","0","0",":","0","0",":","0","2",",","5","0","0","\n",
    "2","0","2","4","\n">>
Srt_music ==
    <<"1","\n","0","0",":","0","0",":","0","0",",","0","0","0"," ","-","-",
    ">"," ","0","0",":","0","0",":","0","1",",","0","0","0","\n","[","M",
    "u","s","i","c","]","\n">>
Srt_crlf ==
    <<"1","\r","\n","0","0",":","0","0",":","0","0",".","0","0","0","-","-",
    ">","0","0",":","0","0",":","0","1",".","0","0","0","\r","\n","H","i",
    " "," ","t","h","e","r","e","\r","\n">>
Srt_year ==
    <<"1","\n","0","0",":","0","0",":","0","0",",","0","0","0"," ","-","-",
    ">"," ","0","0",":","0","0",":","0","1",",","0","0","0","\n","2","0",
    "2","4","\n","\n","2","\n","0","0",":","0","0",":","0","1",",","0","0",
    "0"," ","-","-",">"," ","0","0",":","0","0",":","0","2",",","0","0","0",
    "\n","w","a","s"," ","a"," ","g","o","o","d"," ","y","e","a","r","\n">>
Srt_partial ==
    <<"1","\n","0","0",":","0","0",":","0">>
Txt_hi ==
    <<"H","i">>
Txt_hello ==
    <<"H","e","l","l","o">>
Txt_music ==
    <<"[","M","u","s","i","c","]">>
Txt_world ==
    <<"w","o","r","l","d">>
Txt_padded ==
    <<" ","a"," ">>
Txt_amp ==
    <<"A","T","&","a","m","p",";","a","m","p",";","T">>

\* mutant: truncates from maxLength on, the boundary included
Truncate_inclusive(t) ==
    IF Len(t) >= maxLength
    THEN SubSeq(t, 1, maxLength - 1) \o TruncationMarker
    ELSE t

\* transcript.length > maxLength
\*     ? transcript.substring(0, maxLength) + '... [truncated]' : transcript
Truncate(t) ==
    IF Len(t) > maxLength
    THEN SubSeq(t, 1, maxLength) \o TruncationMarker
    ELSE t

\* mutant: tests only for the empty string, without trim()
IsEmptyTranscript_noTrim(t) == Len(t) = 0

\* !transcript || transcript.trim().length === 0
IsEmptyTranscript(t) == Len(t) = 0 \/ Len(Trim(t)) = 0

\* /^\d+$/.test(trimmed)
IsSequenceNumber(t) == Len(t) >= 1 /\ \A i \in 1..Len(t) : t[i] \in Digit

\* \d{2}:\d{2}:\d{2}[,\.]\d{3} at position i
TimeAt(t, i) ==
    /\ i >= 1 /\ i + 11 <= Len(t)
    /\ \A k \in {0, 1, 3, 4, 6, 7, 9, 10, 11} : t[i + k] \in Digit
    /\ t[i + 2] = ":" /\ t[i + 5] = ":"
    /\ t[i + 8] \in {",", "."}

\* /^\d{2}:\d{2}:\d{2}[,\.]\d{3}\s*-->\s*\d{2}:\d{2}:\d{2}[,\.]\d{3}$/.test(trimmed)
IsTimestamp(t) ==
    /\ Len(t) >= 27
    /\ TimeAt(t, 1)
    /\ TimeAt(t, Len(t) - 11)
    /\ \E a \in 13..(Len(t) - 14) :
          /\ SubSeq(t, a, a + 2) = <<"-", "-", ">">>
          /\ \A k \in 13..(a - 1) : t[k] \in WhiteSpace
          /\ \A k \in (a + 3)..(Len(t) - 12) : t[k] \in WhiteSpace

\* the loop of parseSrtToText: the trimmed lines that are kept
RECURSIVE TextLines(_)
TextLines(lines) ==
    IF lines = <<>> THEN <<>>
    ELSE LET trimmed == Trim(Head(lines))
         IN IF trimmed = <<>> \/ IsSequenceNumber(trimmed) \/ IsTimestamp(trimmed)
            THEN TextLines(Tail(lines))
            ELSE <<trimmed>> \o TextLines(Tail(lines))

\* .replace(/\s+/g, ' ')
RECURSIVE CollapseWhitespace(_)
CollapseWhitespace(s) ==
    IF s = <<>> THEN <<>>
    ELSE IF Head(s) \in WhiteSpace
         THEN LET rest == {i \in 2..Len(s) : s[i] \notin WhiteSpace}
              IN IF rest = {} THEN <<" ">>
                 ELSE <<" ">> \o CollapseWhitespace(SubSeq(s, SetMin(rest), Len(s)))
         ELSE <<Head(s)>> \o CollapseWhitespace(Tail(s))

\* .replace(/\[.*?\]/g, ''): the leftmost "[" that has a "]" after it on the
\* same line, up to the nearest such "]"
RECURSIVE RemoveBracketed(_)
RemoveBracketed(s) ==
    LET Closes(i) == {j \in (i + 1)..Len(s) :
                        /\ s[j] = "]"
                        /\ \A k \in (i + 1)..(j - 1) : s[k] \notin {"\n", "\r"}}
        opens == {i \in 1..Len(s) : s[i] = "[" /\ Closes(i) # {}}
    IN IF opens = {} THEN s
       ELSE LET i == SetMin(opens)
                j == SetMin(Closes(i))
            IN SubSeq(s, 1, i - 1) \o RemoveBracketed(SubSeq(s, j + 1, Len(s)))

parseSrtToText(srt) ==
    Trim(RemoveBracketed(CollapseWhitespace(Join(TextLines(SplitLines(srt)), <<" ">>))))

---------------------------------------------------------------------------
(* Inputs of the handlers: request bodies and the outcomes of the external *)
(* calls. A rejected promise carries an Error with a message.              *)

\* how far past maxLength the longest transcript of the model reaches
LongExtra == 5000

\* the values Date.now() takes in the model
MaxClock == 2
Clock == 1..MaxClock

\* a transcript text of n characters
LongText(n) ==
    SubSeq([i \in 1..n |-> IF i % 3 = 1 THEN "a" ELSE IF i % 3 = 2 THEN "b" ELSE "c"], 1, n)

\* a videoUrl that is truthy and not a string
NonString == <<"<number>">>

\* no exception in flight
NoError == "<none>"

HandlerUrls ==
    { S_https_www \o Lit_watch \o Id1 \o Q_t, Lit_short \o Id2 \o Q_qt, Id3,
      Lit_watch \o T_short,
      <<>>, T_hello, T_ten, T_vimeo, Lit_watch, S_https_www \o T_feature \o Id1 }

\* await request.json(): rejected, or an object whose videoUrl is absent,
\* a string, or another truthy value
AnalyzeBodies ==
    {[kind |-> "badJson", videoUrl |-> Null]}
    \cup {[kind |-> "json", videoUrl |-> u] : u \in HandlerUrls \cup {Null, NonString}}

Name_mp3 ==
    <<"t","a","l","k",".","m","p","3">>
Name_MP3 ==
    <<"T","A","L","K",".","M","P","3">>
Name_txt ==
    <<"n","o","t","e","s",".","t","x","t">>
Name_noext ==
    <<"m","p","3">>
Name_wav ==
    <<"a",".","w","a","v">>

\* File objects: media type, name, size in bytes
AudioFiles ==
    { [type |-> "audio/mpeg", name |-> Name_mp3, size |-> 1024],
      [type |-> "", name |-> Name_MP3, size |-> 1024],
      [type |-> "video/webm", name |-> Name_noext, size |-> maxSize],
      [type |-> "text/plain", name |-> Name_txt, size |-> 1024],
      [type |-> "text/plain", name |-> Name_mp3, size |-> 2048],
      [type |-> "text/plain", name |-> Name_noext, size |-> 0],
      [type |-> "audio/wav", name |-> Name_wav, size |-> maxSize + 1] }

\* await request.formData(): rejected, or a form with or without 'audio'
AudioBodies ==
    {[kind |-> "badForm"], [kind |-> "noFile"]}
    \cup {[kind |-> "form", file |-> f] : f \in AudioFiles}

\* YoutubeTranscript.fetchTranscript(videoId): the item texts it resolves to
CaptionItems ==
    { <<>>, << <<>> >>, << <<>>, <<" ">> >>, << <<"\n">>, <<"\t">> >>,
      <<Txt_hi>>, <<Txt_hello, Txt_music, Txt_world>>, <<Txt_padded>>, <<Txt_amp>>,
      <<LongText(maxLength)>>, <<LongText(maxLength - 1), <<"z">> >>,
      <<LongText(maxLength + LongExtra)>> }

CaptionOutcomes ==
    {[kind |-> "throw", message |-> m] :
        m \in {"Transcript is disabled on this video", "Video unavailable"}}
    \cup {[kind |-> "ok", items |-> it] : it \in CaptionItems}

\* client.transcripts.transcribe(...): rejected, or a transcript object
TranscribeOutcomes ==
    {[kind |-> "throw", message |-> "AssemblyAI request failed"]}
    \cup {[kind |-> "result", status |-> "error", error |-> e, text |-> Null] :
            e \in {"", "Download of audio failed"}}
    \cup {[kind |-> "result", status |-> "completed", error |-> "", text |-> x] :
            x \in {Null, <<>>, <<" ">>, Txt_hello, Txt_padded,
                   LongText(maxLength + 1), LongText(maxLength + LongExtra)}}

SrtContents == {Srt_normal, Srt_music, Srt_crlf, Srt_year, <<>>}

NoFiles == [e \in {} |-> <<>>]

\* execAsync(yt-dlp ...): resolved or rejected (exit code, timeout), and the
\* subtitle files the process left under tempFile, by extension
ExecOutcomes ==
    {[kind |-> "ok", message |-> NoError, wrote |-> w] :
        w \in {NoFiles, (".en.srt" :> Srt_normal) @@ (".srt" :> Srt_crlf)}
              \cup {(".en.srt" :> c) : c \in SrtContents}
              \cup {(".srt" :> c) : c \in SrtContents}}
    \cup {[kind |-> "throw", message |-> m, wrote |-> w] :
            m \in {"Command failed: yt-dlp", "Command timed out"},
            w \in {NoFiles, (".en.srt" :> Srt_partial)}}

\* client.files.upload(buffer)
UploadOutcomes == {[kind |-> "ok"], [kind |-> "throw", message |-> "Upload failed"]}

\* analyzeWithAI: fetch rejected, response not ok, a body without
\* choices[0].message, or a completion
AIOutcomes ==
    { [kind |-> "ok", content |-> "## Executive Summary"],
      [kind |-> "notOk", content |-> ""],
      [kind |-> "throw", content |-> ""],
      [kind |-> "malformed", content |-> ""] }

---------------------------------------------------------------------------
(* Responses: the object given to NextResponse.json and its status         *)

UrlRequired == [status |-> 400, error |-> "Video URL is required"]
InvalidUrl == [status |-> 400, error |-> "Invalid YouTube URL"]
\* mutant: the outer catch answers with the captions error
InternalError_masked ==
    [status |-> 400,
     error |-> "Could not fetch captions for this video. Try uploading the audio file instead.",
     suggestion |-> "Use the \"Upload Audio\" tab - download the audio locally with yt-dlp, then upload it here."]
InternalError == [status |-> 500, error |-> "An error occurred processing the video"]

\* analyze/route.ts 39-42
NoKeyError ==
    [status |-> 400,
     error |-> "This video has no captions available. Audio transcription requires an AssemblyAI API key to be configured.",
     suggestion |-> "Try a video with captions enabled, or configure ASSEMBLYAI_API_KEY for audio transcription."]

\* analyze/route.ts 50-53
TranscribeFailed(e) ==
    [status |-> 400,
     error |-> "Could not fetch captions or transcribe audio. The video may be restricted or too long.",
     details |-> e]

\* analyze/route.ts 213-217
YtDlpFailed(e) ==
    [status |-> 400,
     error |-> "Could not fetch captions for this video. Try uploading the audio file instead.",
     suggestion |-> "Use the \"Upload Audio\" tab - download the audio locally with yt-dlp, then upload it here.",
     details |-> e]

\* analyze/route.ts 66-71 and 230-235
AnalyzeSuccess(content) ==
    [status |-> 200, videoId |-> videoId, transcriptLength |-> Len(transcript),
     transcriptSource |-> source, analysis |-> content]

\* transcribe-audio/route.ts 81-86
AudioSuccess(content) ==
    [status |-> 200, fileName |-> body.file.name, transcriptLength |-> Len(transcript),
     transcriptSource |-> source, analysis |-> content]

\* transcribe-audio/route.ts 88-91: the caught error's message
AudioError(message) == [status |-> 500, error |-> message]

---------------------------------------------------------------------------
(* The handlers, one action per resumption of the async function           *)

NoSource == "<unset>"
NoTempFile == [videoId |-> Null, now |-> 0]
FileName(base, ext) == [base |-> base, ext |-> ext]

reqvars == <<route, hasKey, body>>
ytvars == <<tempFile, srtContent, parsed, pending, files>>

\* !videoUrl
MissingUrl(v) == v = Null \/ v = <<>>

\* !videoId
InvalidId(id) == id = Null \/ id = <<>>

\* mutant: the exception leaves the handler and no response is returned
Respond_escape(r) ==
    /\ responses' = responses
    /\ pc' = "done"

\* return NextResponse.json(r, { status })
Respond(r) ==
    /\ responses' = Append(responses, r)
    /\ pc' = "done"

\* mutant: analyzeWithAI is called a second time
StartAnalysis_twice(t, src) ==
    /\ transcript' = t
    /\ source' = src
    /\ aiInput' = Truncate(t)
    /\ calls' = Append(Append(calls, "ai"), "ai")
    /\ pc' = "ai"

\* the transcript is there: truncate it and call analyzeWithAI
StartAnalysis(t, src) ==
    /\ transcript' = t
    /\ source' = src
    /\ aiInput' = Truncate(t)
    /\ calls' = Append(calls, "ai")
    /\ pc' = "ai"

\* POST up to the first strategy: the body, the URL, the identifier
AnalyzeStart ==
    /\ pc = "start"
    /\ route \in {"v1", "v2"}
    /\ LET url == body.videoUrl
           \* request.json() rejects, or url.match is not a function
           threw == body.kind = "badJson" \/ url = NonString
       IN IF threw
          THEN Respond(InternalError) /\ UNCHANGED <<videoId, source, calls>>
          ELSE IF MissingUrl(url)
          THEN Respond(UrlRequired) /\ UNCHANGED <<videoId, source, calls>>
          ELSE IF InvalidId(extractVideoId(url))
          THEN Respond(InvalidUrl) /\ UNCHANGED <<videoId, source, calls>>
          ELSE /\ videoId' = extractVideoId(url)
               /\ source' = "captions"
               /\ calls' = Append(calls, "captions")
               /\ pc' = "captions"
               /\ UNCHANGED responses
    /\ UNCHANGED <<reqvars, transcript, aiInput, failures, capItems, ytvars, xvars, cvars, pvars>>

\* mutant: the catch block reports the failure without trying AssemblyAI
FallbackV1_giveUp ==
    /\ Respond(NoKeyError)
    /\ UNCHANGED <<calls, tempFile>>

\* mutant: the catch block calls the captions fetch again
FallbackV1_retry ==
    /\ calls' = Append(calls, "captions")
    /\ pc' = "captions"
    /\ UNCHANGED <<responses, tempFile>>

\* mutant: the catch block calls transcribeWithAssemblyAI without the key check
FallbackV1_noKeyCheck ==
    /\ calls' = Append(calls, "assemblyai")
    /\ pc' = "assembly"
    /\ UNCHANGED <<responses, tempFile>>

\* v1 catch (captionError): the key check, then transcribeWithAssemblyAI
FallbackV1 ==
    IF ~hasKey
    THEN Respond(NoKeyError) /\ UNCHANGED <<calls, tempFile>>
    ELSE /\ calls' = Append(calls, "assemblyai")
         /\ pc' = "assembly"
         /\ UNCHANGED <<responses, tempFile>>

\* v2 catch (npmError): fetchWithYtDlp up to await execAsync(command)
FallbackV2 ==
    /\ \E now \in Clock : tempFile' = [videoId |-> videoId, now |-> now]
    /\ calls' = Append(calls, "yt-dlp")
    /\ pc' = "exec"
    /\ UNCHANGED responses

\* await YoutubeTranscript.fetchTranscript(videoId) settles
CaptionsReturn ==
    /\ pc = "captions"
    /\ \E o \in CaptionOutcomes :
         LET t == IF o.kind = "ok" THEN Join(o.items, <<" ">>) ELSE Null
             failed == o.kind = "throw" \/ IsEmptyTranscript(t)
             message == IF o.kind = "throw" THEN o.message ELSE "Empty transcript"
         IN /\ capItems' = IF o.kind = "ok" THEN o.items ELSE Null
            /\ IF ~failed
               THEN /\ StartAnalysis(t, "captions")
                    /\ UNCHANGED <<failures, responses, tempFile>>
               ELSE /\ transcript' = IF o.kind = "ok" THEN t ELSE transcript
                    /\ failures' = Append(failures, message)
                    /\ IF route = "v1" THEN FallbackV1 ELSE FallbackV2
                    /\ UNCHANGED <<source, aiInput>>
    /\ UNCHANGED <<reqvars, videoId, srtContent, parsed, pending, files, xvars, cvars, pvars>>

\* transcribeWithAssemblyAI after the await: what it throws, if anything
TranscribeError(o) ==
    IF o.kind = "throw" THEN o.message
    ELSE IF o.status = "error"
         THEN (IF o.error # "" THEN o.error ELSE "Transcription failed")
    ELSE IF o.text = Null \/ o.text = <<>> THEN "No transcript text returned"
    ELSE NoError

\* v1: await client.transcripts.transcribe({ audio_url: videoUrl }) settles
TranscribeReturn ==
    /\ pc = "assembly"
    /\ route = "v1"
    /\ \E o \in TranscribeOutcomes :
         IF TranscribeError(o) = NoError
         THEN /\ StartAnalysis(o.text, "audio-transcription")
              /\ UNCHANGED <<failures, responses>>
         ELSE /\ failures' = Append(failures, TranscribeError(o))
              /\ Respond(TranscribeFailed(TranscribeError(o)))
              /\ UNCHANGED <<transcript, source, aiInput, calls>>
    /\ UNCHANGED <<reqvars, videoId, capItems, ytvars, xvars, cvars, pvars>>

RemoveFile(fs, n) == [m \in DOMAIN fs \ {n} |-> fs[m]]

\* const srtFile = `${tempFile}.en.srt`, const altFile = `${tempFile}.srt`
srtFile == FileName(tempFile, ".en.srt")
altFile == FileName(tempFile, ".srt")

\* v2: await execAsync(command, { timeout: 60000 }) settles
ExecReturn ==
    /\ pc = "exec"
    /\ \E o \in ExecOutcomes :
         LET written == [n \in {FileName(tempFile, e) : e \in DOMAIN o.wrote}
                            |-> o.wrote[n.ext]]
         IN /\ files' = written @@ files
            /\ IF o.kind = "throw"
               THEN pending' = o.message /\ pc' = "unlink"
               ELSE pending' = pending /\ pc' = "readSrt"
    /\ UNCHANGED <<reqvars, videoId, transcript, source, aiInput, calls, failures,
                   responses, capItems, tempFile, srtContent, parsed, xvars, cvars, pvars>>

\* fetchWithYtDlp 276-283: parse the content, throw on an empty transcript,
\* and enter the finally block
ParseSrt(content) ==
    /\ srtContent' = content
    /\ parsed' = parseSrtToText(content)
    /\ pending' = IF IsEmptyTranscript(parseSrtToText(content))
                  THEN "Empty transcript from yt-dlp"
                  ELSE NoError
    /\ pc' = "unlink"

\* v2: await readFile(srtFile, 'utf-8') settles
ReadSrtReturn ==
    /\ pc = "readSrt"
    /\ IF srtFile \in DOMAIN files
       THEN ParseSrt(files[srtFile])
       ELSE pc' = "readAlt" /\ UNCHANGED <<srtContent, parsed, pending>>
    /\ UNCHANGED <<reqvars, videoId, transcript, source, aiInput, calls, failures,
                   responses, capItems, tempFile, files, xvars, cvars, pvars>>

\* v2: await readFile(altFile, 'utf-8') settles
ReadAltReturn ==
    /\ pc = "readAlt"
    /\ IF altFile \in DOMAIN files
       THEN ParseSrt(files[altFile])
       ELSE /\ pending' = "ENOENT: no such file or directory"
            /\ pc' = "unlink"
            /\ UNCHANGED <<srtContent, parsed>>
    /\ UNCHANGED <<reqvars, videoId, transcript, source, aiInput, calls, failures,
                   responses, capItems, tempFile, files, xvars, cvars, pvars>>

\* finally { try { await unlink(srtFile) } catch { } }
Cleanup == RemoveFile(files, srtFile)

\* v2: the unlink of the finally block settles and fetchWithYtDlp returns
\* or rethrows to POST
UnlinkReturn ==
    /\ pc = "unlink"
    /\ files' = Cleanup
    /\ IF pending = NoError
       THEN /\ StartAnalysis(parsed, "yt-dlp-captions")
            /\ UNCHANGED <<failures, responses>>
       ELSE /\ failures' = Append(failures, pending)
            /\ Respond(YtDlpFailed(pending))
            /\ UNCHANGED <<transcript, source, aiInput, calls>>
    /\ UNCHANGED <<reqvars, videoId, capItems, tempFile, srtContent, parsed,
                   pending, xvars, cvars, pvars>>

validTypes ==
    {"audio/mpeg", "audio/mp3", "audio/wav", "audio/x-wav", "audio/mp4", "audio/m4a",
     "audio/x-m4a", "audio/webm", "audio/ogg", "audio/flac", "video/mp4", "video/webm"}

UpperSeq == <<"A","B","C","D","E","F","G","H","I","J","K","L","M",
              "N","O","P","Q","R","S","T","U","V","W","X","Y","Z">>
LowerSeq == <<"a","b","c","d","e","f","g","h","i","j","k","l","m",
              "n","o","p","q","r","s","t","u","v","w","x","y","z">>
\* the i flag: letters compare without case
LowerOf(c) ==
    IF c \in Upper THEN LowerSeq[CHOOSE i \in 1..26 : UpperSeq[i] = c] ELSE c

AudioExtensions ==
    {<<"m","p","3">>,
     <<"w","a","v">>,
     <<"m","4","a">>,
     <<"m","p","4">>,
     <<"w","e","b","m">>,
     <<"o","g","g">>,
     <<"f","l","a","c">>}

\* audioFile.name.match(/\.(mp3|wav|m4a|mp4|webm|ogg|flac)$/i)
NameMatches(name) ==
    \E e \in AudioExtensions :
        /\ Len(name) >= Len(e) + 1
        /\ name[Len(name) - Len(e)] = "."
        /\ \A k \in 1..Len(e) : LowerOf(name[Len(name) - Len(e) + k]) = e[k]

\* transcribe-audio POST up to await client.files.upload(buffer)
AudioStart ==
    /\ pc = "start"
    /\ route = "audio"
    /\ IF ~hasKey
       THEN Respond(AudioError("AssemblyAI API key is not configured."))
            /\ UNCHANGED calls
       ELSE IF body.kind = "badForm"
       THEN Respond(AudioError("Failed to parse body as FormData"))
            /\ UNCHANGED calls
       ELSE IF body.kind = "noFile"
       THEN Respond([status |-> 400, error |-> "Audio file is required"])
            /\ UNCHANGED calls
       ELSE IF body.file.type \notin validTypes /\ ~NameMatches(body.file.name)
       THEN Respond([status |-> 400,
                     error |-> "Invalid file type. Supported: MP3, WAV, M4A, MP4, WebM, OGG, FLAC"])
            /\ UNCHANGED calls
       ELSE IF body.file.size > maxSize
       THEN Respond([status |-> 400, error |-> "File too large. Maximum size is 500MB."])
            /\ UNCHANGED calls
       ELSE /\ calls' = Append(calls, "upload")
            /\ pc' = "upload"
            /\ UNCHANGED responses
    /\ UNCHANGED <<reqvars, videoId, transcript, source, aiInput, failures,
                   capItems, ytvars, xvars, cvars, pvars>>

\* await client.files.upload(buffer) settles
UploadReturn ==
    /\ pc = "upload"
    /\ \E o \in UploadOutcomes :
         IF o.kind = "ok"
         THEN /\ calls' = Append(calls, "assemblyai")
              /\ pc' = "assembly"
              /\ UNCHANGED responses
         ELSE Respond(AudioError(o.message)) /\ UNCHANGED calls
    /\ UNCHANGED <<reqvars, videoId, transcript, source, aiInput, failures,
                   capItems, ytvars, xvars, cvars, pvars>>

\* transcribe-audio: await client.transcripts.transcribe(...) settles
AudioTranscribeReturn ==
    /\ pc = "assembly"
    /\ route = "audio"
    /\ \E o \in TranscribeOutcomes :
         IF TranscribeError(o) = NoError
         THEN StartAnalysis(o.text, "audio-upload") /\ UNCHANGED responses
         ELSE /\ Respond(AudioError(TranscribeError(o)))
              /\ UNCHANGED <<transcript, source, aiInput, calls>>
    /\ UNCHANGED <<reqvars, videoId, failures, capItems, ytvars, xvars, cvars, pvars>>

\* what analyzeWithAI throws
AIErrorMessage(o) ==
    IF o.kind = "notOk" THEN "Failed to analyze with AI"
    ELSE IF o.kind = "throw" THEN "fetch failed"
    ELSE "Cannot read properties of undefined (reading 'message')"

\* await analyzeWithAI(truncatedTranscript) settles: the result, or the
\* outer catch
AIReturn ==
    /\ pc = "ai"
    /\ \E o \in AIOutcomes :
         IF o.kind = "ok"
         THEN Respond(IF route = "audio" THEN AudioSuccess(o.content)
                      ELSE AnalyzeSuccess(o.content))
         ELSE Respond(IF route = "audio" THEN AudioError(AIErrorMessage(o))
                      ELSE InternalError)
    /\ UNCHANGED <<reqvars, videoId, transcript, source, aiInput, calls, failures,
                   capItems, ytvars, xvars, cvars, pvars>>

---------------------------------------------------------------------------
(* A second request: its fetchWithYtDlp call, the part of the handler that  *)
(* touches the temporary directory                                          *)

NoOutcome == [kind |-> "none", message |-> NoError, wrote |-> NoFiles]
NoResult == [kind |-> "none", message |-> NoError, text |-> Null]
Returned(t) == [kind |-> "ok", message |-> NoError, text |-> t]
Thrown(m) == [kind |-> "throw", message |-> m, text |-> Null]

PeerIdle ==
    [pc |-> "idle", tempFile |-> NoTempFile, exec |-> NoOutcome,
     result |-> NoResult, pending |-> NoResult]

\* the identifiers the second request asks for
PeerIds == {Id3, Id1}

\* what yt-dlp does for the second request
PeerExecOutcomes ==
    { [kind |-> "ok", message |-> NoError, wrote |-> (".en.srt" :> Srt_crlf)],
      [kind |-> "ok", message |-> NoError, wrote |-> (".srt" :> Srt_normal)],
      [kind |-> "ok", message |-> NoError, wrote |-> NoFiles],
      [kind |-> "throw", message |-> "Command timed out", wrote |-> NoFiles] }

\* fetchWithYtDlp 276-283 on a content read
ParsedResult(content) ==
    IF IsEmptyTranscript(parseSrtToText(content))
    THEN Thrown("Empty transcript from yt-dlp")
    ELSE Returned(parseSrtToText(content))

\* fetchWithYtDlp up to await execAsync(command)
PeerStart ==
    /\ peer.pc = "idle"
    /\ \E id \in PeerIds, now \in Clock :
         peer' = [peer EXCEPT !.pc = "exec",
                              !.tempFile = [videoId |-> id, now |-> now]]
    /\ UNCHANGED <<hvars, xvars, pvars>>

\* await execAsync(command, { timeout: 60000 }) settles
PeerExecReturn ==
    /\ peer.pc = "exec"
    /\ \E o \in PeerExecOutcomes :
         LET written == [n \in {FileName(peer.tempFile, e) : e \in DOMAIN o.wrote}
                            |-> o.wrote[n.ext]]
         IN /\ files' = written @@ files
            /\ peer' = [peer EXCEPT !.exec = o,
                                    !.pending = IF o.kind = "throw"
                                                THEN Thrown(o.message) ELSE NoResult,
                                    !.pc = IF o.kind = "throw"
                                           THEN "unlink" ELSE "readSrt"]
    /\ UNCHANGED <<reqvars, pc, videoId, transcript, source, aiInput, calls,
                   failures, responses, capItems, tempFile, srtContent, parsed,
                   pending, xvars, pvars>>

\* await readFile(srtFile, 'utf-8') settles
PeerReadSrtReturn ==
    /\ peer.pc = "readSrt"
    /\ LET f == FileName(peer.tempFile, ".en.srt")
       IN peer' = IF f \in DOMAIN files
                  THEN [peer EXCEPT !.pending = ParsedResult(files[f]), !.pc = "unlink"]
                  ELSE [peer EXCEPT !.pc = "readAlt"]
    /\ UNCHANGED <<hvars, xvars, pvars>>

\* await readFile(altFile, 'utf-8') settles
PeerReadAltReturn ==
    /\ peer.pc = "readAlt"
    /\ LET f == FileName(peer.tempFile, ".srt")
       IN peer' = [peer EXCEPT
                     !.pending = IF f \in DOMAIN files
                                 THEN ParsedResult(files[f])
                                 ELSE Thrown("ENOENT: no such file or directory"),
                     !.pc = "unlink"]
    /\ UNCHANGED <<hvars, xvars, pvars>>

\* the unlink of the finally block settles and the call returns or rethrows
PeerUnlinkReturn ==
    /\ peer.pc = "unlink"
    /\ files' = RemoveFile(files, FileName(peer.tempFile, ".en.srt"))
    /\ peer' = [peer EXCEPT !.result = peer.pending, !.pc = "done"]
    /\ UNCHANGED <<reqvars, pc, videoId, transcript, source, aiInput, calls,
                   failures, responses, capItems, tempFile, srtContent, parsed,
                   pending, xvars, pvars>>

\* what fetchWithYtDlp gives for an outcome of yt-dlp when no other call
\* shares its files
YtDlpAlone(o) ==
    IF o.kind = "throw" THEN Thrown(o.message)
    ELSE IF ".en.srt" \in DOMAIN o.wrote THEN ParsedResult(o.wrote[".en.srt"])
    ELSE IF ".srt" \in DOMAIN o.wrote THEN ParsedResult(o.wrote[".srt"])
    ELSE Thrown("ENOENT: no such file or directory")

\* the page component before any event
NullResult == [ok |-> FALSE, analysis |-> ""]
NoAudioFile == [type |-> "", name |-> Null, size |-> 0]

\* the useState initial values
PageIdle ==
    /\ mode = "url"
    /\ videoUrl = <<>>
    /\ audioFile = NoAudioFile
    /\ loading = FALSE
    /\ error = ""
    /\ result = NullResult
    /\ requests = <<>>
    /\ submits = 0

---------------------------------------------------------------------------
(* The request specification                                               *)

HandlerIdle ==
    /\ videoId = Null
    /\ transcript = Null
    /\ source = NoSource
    /\ aiInput = Null
    /\ calls = <<>>
    /\ failures = <<>>
    /\ responses = <<>>
    /\ capItems = Null
    /\ tempFile = NoTempFile
    /\ srtContent = Null
    /\ parsed = Null
    /\ pending = NoError
    /\ files = NoFiles

Init ==
    /\ route \in {"v1", "v2", "audio"}
    /\ hasKey \in BOOLEAN
    /\ body \in (IF route = "audio" THEN AudioBodies ELSE AnalyzeBodies)
    /\ pc = "start"
    /\ HandlerIdle
    /\ xin = XIdle
    /\ xout = XPending
    /\ peer = PeerIdle
    /\ PageIdle

Next ==
    \/ AnalyzeStart
    \/ CaptionsReturn
    \/ TranscribeReturn
    \/ ExecReturn
    \/ ReadSrtReturn
    \/ ReadAltReturn
    \/ UnlinkReturn
    \/ AudioStart
    \/ UploadReturn
    \/ AudioTranscribeReturn
    \/ AIReturn

Spec == Init /\ [][Next]_vars

---------------------------------------------------------------------------
(* Two concurrent requests to the second version of the handler             *)

ConcInit ==
    /\ route = "v2"
    /\ hasKey = FALSE
    /\ body \in {[kind |-> "json", videoUrl |-> u] : u \in {Id3, Lit_short \o Id2 \o Q_qt}}
    /\ pc = "start"
    /\ HandlerIdle
    /\ xin = XIdle
    /\ xout = XPending
    /\ peer = PeerIdle
    /\ PageIdle

ConcNext ==
    \/ AnalyzeStart
    \/ CaptionsReturn
    \/ ExecReturn
    \/ ReadSrtReturn
    \/ ReadAltReturn
    \/ UnlinkReturn
    \/ AIReturn
    \/ PeerStart
    \/ PeerExecReturn
    \/ PeerReadSrtReturn
    \/ PeerReadAltReturn
    \/ PeerUnlinkReturn

ConcSpec == ConcInit /\ [][ConcNext]_vars

---------------------------------------------------------------------------
(* The extractor specification: extractVideoId applied to each input       *)

XInit ==
    /\ route = "none"
    /\ hasKey = FALSE
    /\ body = [kind |-> "none"]
    /\ pc = "idle"
    /\ HandlerIdle
    /\ xin \in XInputs
    /\ xout = XPending
    /\ peer = PeerIdle
    /\ PageIdle

XExtract ==
    /\ pc = "idle"
    /\ ~xout.done
    /\ xout' = [done |-> TRUE, value |-> extractVideoId(xin.url)]
    /\ UNCHANGED <<hvars, xin, cvars, pvars>>

XNext == XExtract

ExtractSpec == XInit /\ [][XNext]_vars

---------------------------------------------------------------------------
(* The page component: its state and its event handlers                    *)

\* how many submit events the model follows
MaxSubmits == 3

\* what the user types, and the files the user picks
PageUrls == {<<>>, <<" ">>, Id3}
PageFiles ==
    { [type |-> "audio/mpeg", name |-> Name_mp3, size |-> 1024],
      [type |-> "text/plain", name |-> Name_txt, size |-> 1024] }

\* the bodies the endpoints answer with
PageData ==
    { [ok |-> TRUE, analysis |-> "## Executive Summary", error |-> ""],
      [ok |-> FALSE, analysis |-> "", error |-> "Invalid YouTube URL"],
      [ok |-> FALSE, analysis |-> "", error |-> ""] }

\* mutant: the submit button ignores loading
CanSubmitUrl_always == mode = "url" /\ ~IsEmptyTranscript(videoUrl)

\* the URL form is rendered and its submit button is not disabled
CanSubmitUrl == mode = "url" /\ ~(loading \/ IsEmptyTranscript(videoUrl))

\* the upload form is rendered and its submit button is not disabled
CanSubmitAudio == mode = "upload" /\ ~(loading \/ audioFile = NoAudioFile)

\* onClick={() => setMode(...)}
SetMode ==
    /\ \E m \in {"url", "upload"} : mode' = m
    /\ UNCHANGED <<videoUrl, audioFile, loading, error, result, requests, submits, hvars, xvars, cvars>>

\* onChange={(e) => setVideoUrl(e.target.value)}, input disabled={loading}
ChangeVideoUrl ==
    /\ mode = "url" /\ ~loading
    /\ \E v \in PageUrls : videoUrl' = v
    /\ UNCHANGED <<mode, audioFile, loading, error, result, requests, submits, hvars, xvars, cvars>>

\* if (file) { setAudioFile(file); setError('') }
SelectFile(picked) ==
    IF picked = NoAudioFile
    THEN UNCHANGED <<audioFile, error>>
    ELSE audioFile' = picked /\ error' = ""

\* handleFileChange, input disabled={loading}
handleFileChange ==
    /\ mode = "upload" /\ ~loading
    /\ \E f \in PageFiles \cup {NoAudioFile} : SelectFile(f)
    /\ UNCHANGED <<mode, videoUrl, loading, result, requests, submits, hvars, xvars, cvars>>

\* handleDrop on the drop zone
handleDrop ==
    /\ mode = "upload"
    /\ \E f \in PageFiles \cup {NoAudioFile} : SelectFile(f)
    /\ UNCHANGED <<mode, videoUrl, loading, result, requests, submits, hvars, xvars, cvars>>

\* setLoading(true); setError(''); setResult(null); fetch(endpoint, ...)
StartRequest(endpoint) ==
    /\ loading' = TRUE
    /\ error' = ""
    /\ result' = NullResult
    /\ requests' = Append(requests, [endpoint |-> endpoint, stage |-> "fetch", ok |-> FALSE])
    /\ submits' = submits + 1

\* handleAnalyzeUrl up to await fetch('/api/analyze', ...)
handleAnalyzeUrl ==
    /\ CanSubmitUrl
    /\ submits < MaxSubmits
    /\ StartRequest("/api/analyze")
    /\ UNCHANGED <<mode, videoUrl, audioFile, hvars, xvars, cvars>>

\* handleAnalyzeAudio up to await fetch('/api/transcribe-audio', ...)
handleAnalyzeAudio ==
    /\ CanSubmitAudio
    /\ submits < MaxSubmits
    /\ IF audioFile = NoAudioFile
       THEN UNCHANGED <<loading, error, result, requests, submits>>
       ELSE StartRequest("/api/transcribe-audio")
    /\ UNCHANGED <<mode, videoUrl, audioFile, hvars, xvars, cvars>>

RemoveAt(s, i) == SubSeq(s, 1, i - 1) \o SubSeq(s, i + 1, Len(s))

\* catch (err) { setError(...) } finally { setLoading(false) }
FailRequest(i, message) ==
    /\ error' = message
    /\ loading' = FALSE
    /\ requests' = RemoveAt(requests, i)
    /\ UNCHANGED result

\* await fetch(...) settles: a response, or a rejection
FetchReturn ==
    /\ \E i \in 1..Len(requests) :
         /\ requests[i].stage = "fetch"
         /\ \/ \E ok \in BOOLEAN :
                 /\ requests' = [requests EXCEPT ![i].stage = "json", ![i].ok = ok]
                 /\ UNCHANGED <<loading, error, result>>
            \/ FailRequest(i, "Failed to fetch")
    /\ UNCHANGED <<mode, videoUrl, audioFile, submits, hvars, xvars, cvars>>

\* await response.json() settles, then the ok test and setResult(data)
JsonReturn ==
    /\ \E i \in 1..Len(requests) :
         /\ requests[i].stage = "json"
         /\ \/ FailRequest(i, "Unexpected end of JSON input")
            \/ \E data \in PageData :
                 /\ data.ok = requests[i].ok
                 /\ IF ~requests[i].ok
                    THEN FailRequest(i, IF data.error # "" THEN data.error
                                        ELSE IF requests[i].endpoint = "/api/analyze"
                                        THEN "Failed to analyze video"
                                        ELSE "Failed to transcribe audio")
                    ELSE /\ result' = [ok |-> TRUE, analysis |-> data.analysis]
                         /\ loading' = FALSE
                         /\ requests' = RemoveAt(requests, i)
                         /\ UNCHANGED error
    /\ UNCHANGED <<mode, videoUrl, audioFile, submits, hvars, xvars, cvars>>

PageInit ==
    /\ route = "none"
    /\ hasKey = FALSE
    /\ body = [kind |-> "none"]
    /\ pc = "idle"
    /\ HandlerIdle
    /\ xin = XIdle
    /\ xout = XPending
    /\ peer = PeerIdle
    /\ PageIdle

PageNext ==
    \/ SetMode
    \/ ChangeVideoUrl
    \/ handleFileChange
    \/ handleDrop
    \/ handleAnalyzeUrl
    \/ handleAnalyzeAudio
    \/ FetchReturn
    \/ JsonReturn

PageSpec == PageInit /\ [][PageNext]_vars

---------------------------------------------------------------------------
(* Vocabulary of the properties                                            *)

IsBlank(s) == \A i \in 1..Len(s) : s[i] \in WhiteSpace
Called(c) == \E i \in 1..Len(calls) : calls[i] = c
IsAnalyze == route \in {"v1", "v2"}
IsSuccess(r) == r.status = 200

\* the space-joined text of the segments the captions fetch returned
CaptionsText == Join(capItems, <<" ">>)
CaptionsBlank == capItems # Null /\ IsBlank(CaptionsText)
\* the captions fetch has settled; it threw or returned nothing but white space
CaptionsSettled == Called("captions") /\ pc # "captions"
CaptionsFailed == capItems = Null \/ IsBlank(CaptionsText)

\* the strategy wired after the captions fetch
FallbackCall == IF route = "v1" THEN "assemblyai" ELSE "yt-dlp"
StrategyCalls == SelectSeq(calls, LAMBDA c : c \in {"captions", "assemblyai", "yt-dlp"})

\* no transcript taken from the captions fetch is analysed or reported
NoCaptionsSuccess ==
    /\ aiInput # Null => source # "captions"
    /\ \A i \in 1..Len(responses) :
          IsSuccess(responses[i]) => responses[i].transcriptSource # "captions"

\* the request had a valid identifier and ended without any transcript
ChainFailed == IsAnalyze /\ videoId # Null /\ pc = "done" /\ ~Called("ai")

---------------------------------------------------------------------------
(* C1 - C10                                                                *)

\* C1 as stated: when the captions fetch returns segments whose space-joined
\* text is empty or all white space, no success comes from that result and the
\* next wired strategy is attempted (AssemblyAI in v1, yt-dlp in v2).
C1_Original ==
    (IsAnalyze /\ CaptionsBlank) => (NoCaptionsSuccess /\ Called(FallbackCall))

\* C1 (amended): a blank captions result never becomes a success; the handler
\* goes on to yt-dlp in v2 and to AssemblyAI in v1 when the API key is
\* configured; in v1 without the key AssemblyAI is not attempted and the
\* request ends with the 400 no-captions response.
C1_BlankCaptionsFallThrough ==
    (IsAnalyze /\ CaptionsBlank) =>
        /\ NoCaptionsSuccess
        /\ route = "v2" => Called("yt-dlp")
        /\ (route = "v1" /\ hasKey) => Called("assemblyai")
        /\ (route = "v1" /\ ~hasKey) =>
              (~Called("assemblyai") /\ responses = <<NoKeyError>>)

C1_Witness ==
    /\ route = "v2"
    /\ CaptionsBlank /\ Len(CaptionsText) > 0
    /\ Called("yt-dlp")
    /\ Len(responses) = 1 /\ IsSuccess(responses[1])

\* C2 as stated: with a valid identifier the strategies run in one fixed order,
\* the fallback is attempted if and only if the captions fetch threw or
\* returned an empty result, and no failure ends the request before the next
\* wired strategy has been attempted.
C2_Original ==
    (IsAnalyze /\ videoId # Null) =>
        /\ StrategyCalls \in {<<"captions">>, <<"captions", FallbackCall>>}
        /\ CaptionsSettled => (Called(FallbackCall) <=> CaptionsFailed)

\* C2 (amended): the order is fixed, and the fallback is attempted if and only
\* if the captions fetch failed and, in v1, the AssemblyAI key is configured;
\* a captions failure in v1 without the key ends the request at once.
C2_OrderedFallback ==
    (IsAnalyze /\ videoId # Null) =>
        /\ StrategyCalls \in {<<"captions">>, <<"captions", FallbackCall>>}
        /\ CaptionsSettled =>
              /\ Called(FallbackCall) <=> (CaptionsFailed /\ (route = "v1" => hasKey))
              /\ (CaptionsFailed /\ route = "v1" /\ ~hasKey) => responses = <<NoKeyError>>

C2_Witness ==
    /\ route = "v1" /\ hasKey
    /\ CaptionsSettled /\ capItems = Null
    /\ StrategyCalls = <<"captions", "assemblyai">>
    /\ pc = "done"

\* C3: whenever every wired strategy fails for a request with a valid
\* identifier, the response is a 400-class error with a non-empty suggestion.
C3_FailureHasSuggestion ==
    ChainFailed =>
        /\ Len(responses) = 1
        /\ responses[1].status \in 400..499
        /\ "suggestion" \in DOMAIN responses[1]
        /\ responses[1].suggestion # ""

\* C4: whenever all attempted strategies fail, the error response carries a
\* details field equal to the message of the last strategy failure of the
\* request, and no strategy failure message appears in any other field of a
\* response.
C4_DetailsIsLastFailure ==
    /\ ChainFailed =>
          /\ Len(responses) = 1
          /\ "details" \in DOMAIN responses[1]
          /\ responses[1].details = failures[Len(failures)]
    /\ IsAnalyze =>
          \A i \in 1..Len(responses) :
              \A f \in DOMAIN responses[i] \cap
                       {"error", "suggestion", "analysis", "transcriptSource"} :
                  \A k \in 1..Len(failures) : responses[i][f] # failures[k]

\* C5: a transcript longer than 15000 characters is passed to analyzeWithAI as
\* its first 15000 characters followed by the truncation marker, a shorter one
\* unchanged, and the transcriptLength of a success response is the length of
\* the untruncated transcript, in all three handlers.
C5_Truncation ==
    aiInput # Null =>
        /\ (source = "captions" => transcript = CaptionsText)
        /\ Len(transcript) > 15000 =>
              /\ Len(aiInput) = 15000 + Len(TruncationMarker)
              /\ SubSeq(aiInput, 1, 15000) = SubSeq(transcript, 1, 15000)
              /\ SubSeq(aiInput, 15001, Len(aiInput)) = TruncationMarker
        /\ Len(transcript) <= 15000 => aiInput = transcript
        /\ \A i \in 1..Len(responses) :
              IsSuccess(responses[i]) =>
                  responses[i].transcriptLength = Len(transcript)

C5_Witness ==
    /\ Len(responses) = 1 /\ IsSuccess(responses[1])
    /\ responses[1].transcriptLength = 20000
    /\ Len(aiInput) = 15015
    /\ route = "v2"

\* C6: after fetchWithYtDlp has returned or thrown, no subtitle file created
\* by that call remains on disk.
C6_NoTempFileLeft ==
    (Called("yt-dlp") /\ pc \in {"ai", "done"}) =>
        \A f \in DOMAIN files : f.base # tempFile

\* C7: for every identifier and every watch-URL, short-link and embed-URL
\* form carrying it (with or without trailing parameters), extractVideoId
\* returns that identifier.
C7_SameIdentifier ==
    (xout.done /\ xin.form \in UrlForms) => xout.value = xin.id

C7_Witness ==
    /\ xout.done
    /\ xin.form = "short?" /\ xin.id = Id2
    /\ xout.value = Id2

\* C8 as stated: for every input string that matches neither pattern,
\* extractVideoId returns null and the handler answers 400 'Invalid YouTube
\* URL' without starting any strategy or the language-model call.
C8_Original ==
    (/\ IsAnalyze /\ pc # "start"
     /\ body.kind = "json" /\ body.videoUrl \notin {Null, NonString}
     /\ ~urlPattern(body.videoUrl).matched /\ ~barePattern(body.videoUrl).matched)
    => /\ extractVideoId(body.videoUrl) = Null
       /\ responses = <<InvalidUrl>>
       /\ calls = <<>>

\* C8 (amended): the same for every non-empty input string; the empty string
\* is answered 400 'Video URL is required', also without any call.
C8_InvalidInputRejected ==
    (/\ IsAnalyze /\ pc # "start"
     /\ body.kind = "json" /\ body.videoUrl \notin {Null, NonString}
     /\ ~urlPattern(body.videoUrl).matched /\ ~barePattern(body.videoUrl).matched)
    => /\ extractVideoId(body.videoUrl) = Null
       /\ responses = <<IF body.videoUrl = <<>> THEN UrlRequired ELSE InvalidUrl>>
       /\ calls = <<>>
       /\ videoId = Null

C8_Witness ==
    /\ IsAnalyze /\ pc = "done"
    /\ body.kind = "json" /\ body.videoUrl = T_hello
    /\ responses = <<InvalidUrl>>
    /\ calls = <<>>

\* C9: every non-null value returned by extractVideoId is exactly 11
\* characters of [A-Za-z0-9_-]; any other input is rejected.
C9_CanonicalIdentifier ==
    (xout.done /\ xout.value # Null) =>
        /\ Len(xout.value) = 11
        /\ \A i \in 1..Len(xout.value) : xout.value[i] \in IdChars

\* C10: the URL-shaped pattern is tried first and the first match is returned:
\* when it matches, the result is its capture; the bare pattern decides only
\* when the URL-shaped pattern does not match, and then the input is returned
\* verbatim; when neither matches the result is null.
C10_FirstMatchWins ==
    xout.done =>
        /\ urlPattern(xin.url).matched => xout.value = urlPattern(xin.url).group
        /\ (~urlPattern(xin.url).matched /\ barePattern(xin.url).matched)
              => xout.value = xin.url
        /\ (~urlPattern(xin.url).matched /\ ~barePattern(xin.url).matched)
              => xout.value = Null
        /\ xout.value = xin.url => ~urlPattern(xin.url).matched

C10_Witness ==
    /\ xout.done
    /\ xin.form = "bare"
    /\ barePattern(xin.url).matched /\ ~urlPattern(xin.url).matched
    /\ xout.value = xin.url


\* how many times the call c was started
CallCount(c) == Cardinality({i \in 1..Len(calls) : calls[i] = c})
\* the position of the call c in the order of the calls
CallIndex(c) == CHOOSE i \in 1..Len(calls) : calls[i] = c
\* the await a strategy call is suspended at
InFlight(c) ==
    IF c = "captions" THEN pc = "captions"
    ELSE IF c = "assemblyai" THEN pc = "assembly"
    ELSE pc \in {"exec", "readSrt", "readAlt", "unlink"}

\* C11: within one /api/analyze request each strategy is invoked at most once,
\* at most one strategy call is in flight, and the fallback is started only
\* after the captions fetch has completed with an error or an empty result.
C11_OncePerStrategy ==
    IsAnalyze =>
        /\ \A c \in {"captions", "assemblyai", "yt-dlp"} :
              /\ CallCount(c) <= 1
              /\ InFlight(c) => (Called(c) /\ CallIndex(c) = Len(calls))
        /\ Called(FallbackCall) =>
              /\ Called("captions") /\ CallIndex("captions") < CallIndex(FallbackCall)
              /\ ~InFlight("captions")
              /\ CaptionsFailed
              /\ Len(failures) >= 1

C11_Witness ==
    /\ route = "v2"
    /\ capItems = <<>>
    /\ StrategyCalls = <<"captions", "yt-dlp">>
    /\ failures = <<"Empty transcript", "Command timed out">>
    /\ pc = "done"

\* the transcriptSource values the interface allows
AllowedSources ==
    {"captions", "fallback-api", "subtitle-download", "audio-transcription", "audio-upload"}

\* C12: every success response carries one transcriptSource, it names the
\* strategy whose result became the transcript ('captions' only if the
\* captions fetch produced it, the fallback's tag only if the fallback did),
\* and it is one of captions, fallback-api, subtitle-download,
\* audio-transcription, audio-upload.
C12_SourceNamesStrategy ==
    \A i \in 1..Len(responses) :
        IsSuccess(responses[i]) =>
            /\ "transcriptSource" \in DOMAIN responses[i]
            /\ responses[i].transcriptSource = "captions" <=>
                  (IsAnalyze /\ ~CaptionsFailed /\ ~Called(FallbackCall))
            /\ responses[i].transcriptSource # "captions" =>
                  (IsAnalyze => (CaptionsFailed /\ Called(FallbackCall)))
            /\ responses[i].transcriptSource \in AllowedSources

\* the request obtained a transcript and analyzeWithAI then failed
AIFailed ==
    /\ Called("ai") /\ pc = "done"
    /\ \A i \in 1..Len(responses) : ~IsSuccess(responses[i])

\* C13: if a transcript was obtained and the language-model call then fails,
\* the /api/analyze response is the generic 500-class internal error, never a
\* 400-class captions error, and it carries no suggestion.
C13_AIFailureIsInternal ==
    (IsAnalyze /\ AIFailed) =>
        /\ Len(responses) = 1
        /\ responses[1].status \in 500..599
        /\ responses[1].error = "An error occurred processing the video"
        /\ DOMAIN responses[1] = {"status", "error"}

C13_Witness ==
    /\ route = "v1" /\ hasKey
    /\ source = "audio-transcription"
    /\ transcript = Txt_hello
    /\ AIFailed
    /\ responses = <<InternalError>>

ResultFields == {"videoId", "transcriptLength", "transcriptSource", "analysis"}

\* a complete result
IsCompleteResult(r) ==
    /\ r.status = 200
    /\ DOMAIN r = ResultFields \cup {"status"}
    /\ r.videoId # Null /\ r.transcriptSource # NoSource /\ r.analysis # ""
    /\ "error" \notin DOMAIN r

\* a single error object
IsErrorObject(r) ==
    /\ r.status \in 400..599
    /\ "error" \in DOMAIN r /\ r.error # ""
    /\ DOMAIN r \cap ResultFields = {}

C15_NoKeySkipsTranscription ==
    (IsAnalyze /\ ~hasKey /\ CaptionsSettled /\ CaptionsFailed) =>
        /\ ~Called("assemblyai")
        /\ route = "v1" =>
              /\ calls = <<"captions">>
              /\ pc = "done"
              /\ Len(responses) = 1
              /\ responses[1].status \in 400..499
              /\ responses[1].error = NoKeyError.error

C15_Witness ==
    /\ route = "v1" /\ ~hasKey
    /\ capItems = Null
    /\ failures = <<"Video unavailable">>
    /\ calls = <<"captions">>
    /\ responses = <<NoKeyError>>

\* the text holds a square-bracketed annotation
HasBracketed(s) ==
    \E i \in 1..Len(s) : s[i] = "[" /\ \E j \in (i + 1)..Len(s) : s[j] = "]"
\* the text holds a run of two or more white-space characters
HasWhitespaceRun(s) ==
    \E i \in 1..(Len(s) - 1) : s[i] \in WhiteSpace /\ s[i + 1] \in WhiteSpace
Txt_hello_world == Txt_hello \o <<" ">> \o Txt_world

\* C16: whichever strategy produced the transcript, the transcript that is
\* forwarded and measured has bracketed text removed and every white-space
\* run collapsed to one space; the raw text "Hello [Music] world" becomes
\* exactly "Hello world" on the captions path and through parseSrtToText.
C16_Normalized ==
    (IsAnalyze /\ aiInput # Null) =>
        /\ ~HasBracketed(transcript)
        /\ ~HasWhitespaceRun(transcript)
        /\ (source = "captions" /\ capItems = <<Txt_hello, Txt_music, Txt_world>>)
              => transcript = Txt_hello_world
        /\ (source = "yt-dlp-captions" /\ srtContent = Srt_normal)
              => transcript = Txt_hello_world

Entity_amp == <<"&","a","m","p",";">>
\* the text holds the HTML entity &amp;
HasEntity(s) ==
    \E i \in 1..(Len(s) - 4) : s[i] = "&" /\ SubSeq(s, i, i + 4) = Entity_amp

\* C17: the transcript produced by the chain has HTML entities decoded until
\* a pass changes nothing: the raw segment text "AT&amp;amp;T" yields "AT&T",
\* and no entity is left in a transcript.
C17_EntitiesDecoded ==
    (IsAnalyze /\ aiInput # Null) =>
        /\ ~HasEntity(transcript)
        /\ (source = "captions" /\ capItems = <<Txt_amp>>)
              => transcript = <<"A", "T", "&", "T">>

\* C18: two /api/analyze requests running concurrently, also for the same
\* identifier with fetchWithYtDlp calls started in the same millisecond, do
\* not interfere: a request's fetchWithYtDlp call ends as it would have ended
\* alone, whatever the other request does to the temporary directory.
C18_NoInterference ==
    peer.pc = "done" => peer.result = YtDlpAlone(peer.exec)

C20_NoSuccessFromBlank ==
    /\ aiInput # Null => ~IsBlank(transcript)
    /\ \A i \in 1..Len(responses) :
          IsSuccess(responses[i]) =>
              (~IsBlank(transcript) /\ responses[i].transcriptLength > 0)

\* C21: in /api/transcribe-audio an upload is passed to the transcription
\* service only if its size is at most 500 MB and its media type is in the
\* accepted set; an upload that is larger, or of another media type, is
\* rejected with a 400-class error before any upload, transcription or
\* language-model call.
C21_UploadValidated ==
    (route = "audio" /\ hasKey /\ body.kind = "form") =>
        /\ calls # <<>> =>
              /\ body.file.size <= 500 * 1024 * 1024
              /\ body.file.type \in validTypes
        /\ (pc # "start" /\ (body.file.size > 500 * 1024 * 1024
                             \/ body.file.type \notin validTypes)) =>
              /\ calls = <<>>
              /\ Len(responses) = 1
              /\ responses[1].status \in 400..499

\* the lines of an SRT text that carry spoken text: not blank, not a
\* timestamp line, and not a cue's sequence number (the digits-only line
\* right before a timestamp line)
RECURSIVE SpokenLines(_)
SpokenLines(lines) ==
    IF lines = <<>> THEN <<>>
    ELSE LET trimmed == Trim(Head(lines))
             isSequence == /\ IsSequenceNumber(trimmed)
                           /\ Len(lines) >= 2
                           /\ IsTimestamp(Trim(lines[2]))
         IN IF trimmed = <<>> \/ IsTimestamp(trimmed) \/ isSequence
            THEN SpokenLines(Tail(lines))
            ELSE <<trimmed>> \o SpokenLines(Tail(lines))
Txt_year == <<"2","0","2","4"," ","w","a","s"," ","a"," ","g","o","o","d"," ","y","e","a","r">>

\* C23: parseSrtToText removes exactly the SRT formatting lines and keeps all
\* spoken text: the text it returns is made of every line that is neither
\* blank, a sequence number nor a timestamp, in the original order, a caption
\* line of digits only (such as "2024") included.
C23_KeepsSpokenText ==
    (Called("yt-dlp") /\ srtContent # Null) =>
        /\ TextLines(SplitLines(srtContent)) = SpokenLines(SplitLines(srtContent))
        /\ parsed = Trim(RemoveBracketed(CollapseWhitespace(
                        Join(SpokenLines(SplitLines(srtContent)), <<" ">>))))
        /\ srtContent = Srt_year => parsed = Txt_year

\* result and error as the page shows them
ResultSet == result # NullResult
ErrorSet == error # ""

C22_State ==
    /\ Len(requests) <= 1
    /\ loading <=> Len(requests) = 1
    /\ ~(ResultSet /\ ErrorSet)
    /\ loading => (~ResultSet /\ ~ErrorSet)

C22_Step ==
    /\ Len(requests') > Len(requests) =>
          (~loading /\ loading' /\ result' = NullResult /\ error' = "")
    /\ Len(requests') < Len(requests) =>
          (loading /\ ~loading' /\ (result' # NullResult) # (error' # ""))
    /\ loading' # loading => Len(requests') # Len(requests)

\* C22: in the page component, for any sequence of submit, mode-switch,
\* file-select and response events, at most one request is in flight (no
\* submit while loading), loading is true exactly from a submit until that
\* request's response or failure is handled, result and error are never both
\* set, starting a request clears both and completion sets exactly one.
C22_OneRequestAtATime == []C22_State /\ [][C22_Step]_vars

C22_Witness ==
    /\ submits = 2
    /\ mode = "upload"
    /\ ~loading /\ requests = <<>>
    /\ ResultSet /\ ~ErrorSet
    /\ audioFile # NoAudioFile
=============================================================================
